---- MODULE Spec2Model ----
(***************************************************************************)
(* Prompt Manager: the login page (src/login.py) and the main page         *)
(* (src/pages/app.py) of a Streamlit application, over a remote record     *)
(* store (tables allowed_users, prompts, ratings, notes) and the           *)
(* process-wide st.cache_data cache of the three read queries.             *)
(*                                                                         *)
(* Granularity.  Every browser session runs its script in its own thread,  *)
(* and the record store and the cache are shared by all of them.  A run of *)
(* pages/app.py is two steps: its reads (the gate and the three cached     *)
(* fetches, app.py 18-65) and then the handler of the widget that fired    *)
(* (all its store calls, the one that raises, if any, chosen freely).      *)
(* Steps of other sessions may fall between the two, so a handler can act  *)
(* on a list that is no longer the store's.                                *)
(***************************************************************************)
EXTENDS Integers, Sequences, FiniteSets, TLC

VARIABLES
    session,    \* st.session_state of each browser session: user_email, user_role
    pc,         \* where each session's run of pages/app.py stands
    fetched,    \* the run's local prompts (app.py 63), as the list of its ids
    prompts,    \* table prompts, in created_at order (oldest first)
    ratings,    \* table ratings (the store keeps no order of it)
    notes,      \* table notes, in created_at order
    nextId,     \* the id the store assigns to the next prompt
    cache,      \* st.cache_data: one entry per cached function
    deleted,    \* history: ids whose delete handler ran to completion
    called,     \* history: the last step made a store call
    view        \* the View Assembler's inputs and output (SpecView only)

vars == <<session, pc, fetched, prompts, ratings, notes, nextId, cache,
          deleted, called, view>>

-----------------------------------------------------------------------------
(* Bounds *)

MaxId == 1          \* prompts ever inserted
MaxNotes == 1       \* rows of notes at any time
MaxDoc == 2         \* entries of an uploaded document
TickStep == 30      \* time-units one Tick advances the clock

(* Program constants *)

TTL == 60           \* @st.cache_data(ttl=60)

Sessions == {"s1", "s2"}

Absent == "<absent>"     \* the key is not in st.session_state
None == "<None>"         \* Python None / SQL NULL

Emails == {"admin@x", "user@x", "guest@x"}
Texts == {"", "t"}

\* Table allowed_users: provisioned out of band, read-only here.
allowed_users ==
    << [email |-> "admin@x", role |-> "admin"],
       [email |-> "user@x", role |-> "user"] >>

\* Python truthiness of a session value or a text.
Truthy(x) == x \notin {Absent, None, ""}

Ids(rows) == {rows[i].id : i \in 1..Len(rows)}

RECURSIVE Reverse(_)
Reverse(s) == IF s = <<>> THEN <<>> ELSE Append(Reverse(Tail(s)), Head(s))

-----------------------------------------------------------------------------
(* The external collaborators *)

\* Identity Verifier: every email of Emails has an account with password "pw".
\* The JSON answer either has an "error" key or not.
Verifier(email, password) ==
    IF email \in Emails /\ password = "pw" THEN "ok" ELSE "error"

\* A network call either returns or raises.
Net == {"ok", "raise"}

\* supabase.table("allowed_users").select("*").eq("email", email).execute().data
MutSelectAllowedNoFilter(email) == allowed_users
SelectAllowed(email) == SelectSeq(allowed_users, LAMBDA u : u.email = email)

\* Record Store rows.  Of a prompt's and a note's columns the model keeps the
\* id and the texts; created_at is the insertion order; created_by,
\* updated_at and last_modified_by are stamps that no handler reads.
NewPrompt(id, p, q, r) ==
    [id |-> id, prompt |-> p, query |-> q, response |-> r]

NewRating(pid, email, v) == [prompt_id |-> pid, user_email |-> email, rating |-> v]

NewNote(pid, text) == [prompt_id |-> pid, note |-> text]

SameKey(a, b) == a.prompt_id = b.prompt_id /\ a.user_email = b.user_email

\* .upsert(row, on_conflict="prompt_id,user_email"): update the row that has the
\* key, insert when there is none.  Keys are compared by equality, the None
\* of a session that never signed in included (how the store treats a null
\* user_email is the schema's, which is not part of the sources).
MutUpsertInserts(rows, row) == rows \cup {row}
Upsert(rows, row) == {x \in rows : ~SameKey(x, row)} \cup {row}

\* .delete().eq("prompt_id", pid) on ratings
DeleteRatings(rows, pid) == {x \in rows : x.prompt_id # pid}

\* .delete().eq("prompt_id", pid) on notes
DeleteByPrompt(rows, pid) == SelectSeq(rows, LAMBDA x : x.prompt_id # pid)

\* .delete().eq("id", pid) on prompts
DeleteById(rows, pid) == SelectSeq(rows, LAMBDA x : x.id # pid)

\* .update({...}).eq("id", pid) on prompts
UpdateById(rows, pid, p, q, r) ==
    [i \in 1..Len(rows) |->
        IF rows[i].id = pid
        THEN [rows[i] EXCEPT !.prompt = p, !.query = q, !.response = r]
        ELSE rows[i]]

-----------------------------------------------------------------------------
(* The read cache: @st.cache_data(ttl=60) on the three fetch functions.  The *)
(* _force argument starts with an underscore, so it is no part of the key:  *)
(* each function has one entry, shared by all sessions.                     *)

CacheNames == {"prompts", "ratings", "notes"}

Empty(name) == IF name = "ratings" THEN {} ELSE <<>>

NoEntry(name) == [present |-> FALSE, age |-> 0, data |-> Empty(name)]

\* An entry is served while it is younger than the ttl.
MutFreshIgnoresTtl(e) == e.present
Fresh(e) == e.present /\ e.age < TTL

\* st.cache_data.clear()
cache_clear == [n \in CacheNames |-> NoEntry(n)]

\* The store query behind each cached function (app.py 49-51, 55, 59-61).
Select(name) ==
    CASE name = "prompts" -> Reverse(prompts)     \* order created_at desc
      [] name = "ratings" -> ratings
      [] name = "notes" -> notes                  \* order created_at asc

\* A cached function called: the fresh entry as it is, or else the store's
\* answer stored with age 0.
fetch(name) ==
    IF Fresh(cache[name])
    THEN cache[name]
    ELSE [present |-> TRUE, age |-> 0, data |-> Select(name)]

-----------------------------------------------------------------------------
(* Session, locals *)

NoSession == [user_email |-> Absent, user_role |-> Absent]
NoFetch == <<>>
NoView == [done |-> FALSE]

Init ==
    /\ session = [s \in Sessions |-> NoSession]
    /\ pc = [s \in Sessions |-> "idle"]
    /\ fetched = [s \in Sessions |-> NoFetch]
    /\ prompts = <<>>
    /\ ratings = {}
    /\ notes = <<>>
    /\ nextId = 1
    /\ cache = cache_clear
    /\ deleted = {}
    /\ called = FALSE
    /\ view = NoView

store == <<prompts, ratings, notes, nextId>>

\* The run ends (normally, by st.rerun(), or by an uncaught exception): its
\* locals are gone.
EndRun(s) ==
    /\ pc' = [pc EXCEPT ![s] = "idle"]
    /\ fetched' = [fetched EXCEPT ![s] = NoFetch]

-----------------------------------------------------------------------------
(* login.py *)

\* login.py 22-24
LoginInit(ss) ==
    IF ss.user_email = Absent
    THEN [user_email |-> None, user_role |-> None]
    ELSE ss

\* A run of login.py with no form submitted (22-36): the keys are created;
\* with a truthy user_email the run switches to the main page.
LoginRender(s) ==
    /\ pc[s] = "idle"
    /\ session' = [session EXCEPT ![s] = LoginInit(@)]
    /\ called' = FALSE
    /\ UNCHANGED <<pc, fetched, store, cache, deleted, view>>

\* The form is on the page only after a run of login.py that did not switch
\* to the main page: the keys exist and user_email is falsy.
LoginFormShown(s) == session[s].user_email = None

\* login.py 38-61.  vnet, snet: whether the verifier call and the store call
\* return or raise.
login_form(s, email, password, vnet, snet) ==
    /\ pc[s] = "idle"
    /\ LoginFormShown(s)
    /\ LET res == Verifier(email, password)
           user == SelectAllowed(email)
       IN
       IF ~Truthy(email) \/ ~Truthy(password)
       THEN /\ called' = FALSE
            /\ UNCHANGED session
       ELSE IF vnet = "raise" \/ res = "error" \/ snet = "raise" \/ user = <<>>
       THEN /\ called' = (vnet = "ok" /\ res # "error")
            /\ UNCHANGED session
       ELSE /\ session' = [session EXCEPT ![s] =
                             [user_email |-> email, user_role |-> user[1].role]]
            /\ called' = TRUE
    /\ UNCHANGED <<pc, fetched, store, cache, deleted, view>>

-----------------------------------------------------------------------------
(* pages/app.py: the gate and the reads *)

\* app.py 18: "user_email" in st.session_state
Gate(s) == session[s].user_email # Absent

\* app.py 22
MutAdminAlways(s) == TRUE
ADMIN(s) == session[s].user_role = "admin"

\* app.py 18-20: st.switch_page("login.py") runs login.py in this session.
AppRedirect(s) ==
    /\ pc[s] = "idle"
    /\ ~Gate(s)
    /\ session' = [session EXCEPT ![s] = LoginInit(@)]
    /\ called' = FALSE
    /\ UNCHANGED <<pc, fetched, store, cache, deleted, view>>

\* app.py 41-44: the Refresh button.
Refresh(s) ==
    /\ pc[s] = "idle"
    /\ Gate(s)
    /\ cache' = cache_clear
    /\ called' = FALSE
    /\ UNCHANGED <<session, pc, fetched, store, deleted, view>>

IdList(rows) == [i \in 1..Len(rows) |-> rows[i].id]

\* The fetches that returned before the one that raises (fail), in the order
\* of app.py 63-65; "none": all three returned.
Returned(fail) ==
    CASE fail = "prompts" -> {}
      [] fail = "ratings" -> {"prompts"}
      [] fail = "notes" -> {"prompts", "ratings"}
      [] fail = "none" -> CacheNames

\* app.py 18-65: the gate passed, the three cached fetches.  A store call
\* that raises ends the run with the exception; only a fetch that calls the
\* store can raise.  Of what is fetched the handlers read the prompts' ids
\* alone (item["id"]), which is what the run keeps.
Load(s, fail) ==
    /\ pc[s] = "idle"
    /\ Gate(s)
    /\ fail # "none" => ~Fresh(cache[fail])
    /\ IF fail = "none"
       THEN /\ pc' = [pc EXCEPT ![s] = "body"]
            /\ fetched' = [fetched EXCEPT ![s] = IdList(fetch("prompts").data)]
       ELSE UNCHANGED <<pc, fetched>>
    /\ called' = \E n \in Returned(fail) \cup ({fail} \ {"none"}) : ~Fresh(cache[n])
    /\ cache' = [n \in CacheNames |-> IF n \in Returned(fail) THEN fetch(n) ELSE cache[n]]
    /\ UNCHANGED <<session, store, deleted, view>>

\* The clock: every entry ages.
Tick ==
    /\ \E n \in CacheNames : Fresh(cache[n])
    /\ cache' = [n \in CacheNames |->
                    IF cache[n].present
                    THEN [cache[n] EXCEPT !.age = IF @ + TickStep > TTL THEN TTL ELSE @ + TickStep]
                    ELSE cache[n]]
    /\ called' = FALSE
    /\ UNCHANGED <<session, pc, fetched, store, deleted, view>>

-----------------------------------------------------------------------------
(* pages/app.py: the mutation handlers.  A handler fires in a run whose     *)
(* fetches are done (pc = "body"); the item handlers exist only for the     *)
(* items of the run's own prompts list (the loop of app.py 272).  search,   *)
(* sort and rating_filter are the user's to set, so every fetched item can  *)
(* be on the page.  net: whether the handler's store call returns or        *)
(* raises; an exception ends the run before st.cache_data.clear().          *)

Shown(s) == {fetched[s][i] : i \in 1..Len(fetched[s])}

\* A run in which no widget fired: the page is rendered.
Render(s) ==
    /\ pc[s] = "body"
    /\ EndRun(s)
    /\ called' = FALSE
    /\ UNCHANGED <<session, store, cache, deleted, view>>

\* app.py 209, 341: if p and q and r
MutFieldsRequiredTwo(p, q, r) == Truthy(p) /\ Truthy(q)
FieldsRequired(p, q, r) == Truthy(p) /\ Truthy(q) /\ Truthy(r)

\* app.py 208-221
add_prompt(s, p, q, r, net) ==
    /\ pc[s] = "body"
    /\ (FieldsRequired(p, q, r) /\ net = "ok") => nextId <= MaxId
    /\ EndRun(s)
    /\ called' = FieldsRequired(p, q, r)
    /\ IF FieldsRequired(p, q, r) /\ net = "ok"
       THEN /\ prompts' = Append(prompts, NewPrompt(nextId, p, q, r))
            /\ nextId' = nextId + 1
            /\ cache' = cache_clear
            /\ UNCHANGED <<ratings, notes>>
       ELSE UNCHANGED <<store, cache>>
    /\ UNCHANGED <<session, deleted, view>>

\* app.py 340-356
edit_form(s, pid, p, q, r, net) ==
    /\ pc[s] = "body"
    /\ pid \in Shown(s)
    /\ EndRun(s)
    /\ called' = FieldsRequired(p, q, r)
    /\ IF FieldsRequired(p, q, r) /\ net = "ok"
       THEN /\ prompts' = UpdateById(prompts, pid, p, q, r)
            /\ cache' = cache_clear
            /\ UNCHANGED <<ratings, notes, nextId>>
       ELSE UNCHANGED <<store, cache>>
    /\ UNCHANGED <<session, deleted, view>>

\* app.py 286-306: the up and down buttons, v the button's value.
rate(s, pid, v, net) ==
    /\ pc[s] = "body"
    /\ pid \in Shown(s)
    /\ EndRun(s)
    /\ called' = TRUE
    /\ IF net = "ok"
       THEN /\ ratings' = Upsert(ratings, NewRating(pid, session[s].user_email, v))
            /\ cache' = cache_clear
            /\ UNCHANGED <<prompts, notes, nextId>>
       ELSE UNCHANGED <<store, cache>>
    /\ UNCHANGED <<session, deleted, view>>

\* app.py 388-400
add_note(s, pid, text, net) ==
    /\ pc[s] = "body"
    /\ pid \in Shown(s)
    /\ (Truthy(text) /\ net = "ok") => Len(notes) < MaxNotes
    /\ EndRun(s)
    /\ called' = Truthy(text)
    /\ IF Truthy(text) /\ net = "ok"
       THEN /\ notes' = Append(notes, NewNote(pid, text))
            /\ cache' = cache_clear
            /\ UNCHANGED <<prompts, ratings, nextId>>
       ELSE UNCHANGED <<store, cache>>
    /\ UNCHANGED <<session, deleted, view>>

DeleteCalls == {"ratings", "notes", "prompt"}

\* app.py 308-316: the button exists only when ADMIN.  fail: the call that
\* raises ("none": all three return); the calls before it have taken effect.
delete_item(s, pid, fail) ==
    /\ pc[s] = "body"
    /\ pid \in Shown(s)
    /\ ADMIN(s)
    /\ EndRun(s)
    /\ called' = TRUE
    /\ ratings' = IF fail = "ratings" THEN ratings ELSE DeleteRatings(ratings, pid)
    /\ notes' = IF fail \in {"ratings", "notes"} THEN notes ELSE DeleteByPrompt(notes, pid)
    /\ IF fail = "none"
       THEN /\ prompts' = DeleteById(prompts, pid)
            /\ cache' = cache_clear
            /\ deleted' = deleted \cup {pid}
       ELSE UNCHANGED <<prompts, cache, deleted>>
    /\ UNCHANGED <<session, nextId, view>>

-----------------------------------------------------------------------------
(* Bulk import (app.py 86-106) *)

Missing == "<missing>"             \* the object has no such field

\* An entry of the document: a JSON object, or a value without .get (a
\* number, a string, null), on which d.get raises.
Obj(p, q, r) == [kind |-> "object", prompt |-> p, query |-> q, response |-> r]
BadEntry == [kind |-> "other", prompt |-> Missing, query |-> Missing, response |-> Missing]

DocEntries ==
    {BadEntry, Obj("t", "t", "t"), Obj(Missing, "t", "")}

\* The uploaded documents: unparseable (json.load raises), a number
\* (len(data) raises), or a list.  A JSON object or string at the top level
\* iterates as its keys or characters, which have no .get: a list of BadEntry.
Unparseable == [kind |-> "unparseable", entries |-> <<>>]
Scalar == [kind |-> "number", entries |-> <<>>]
List(entries) == [kind |-> "list", entries |-> entries]

Docs ==
    {Unparseable, Scalar}
        \cup {List(es) : es \in UNION {[1..n -> DocEntries] : n \in 0..MaxDoc}}

\* d.get(k, "")
Get(d, k) == IF d[k] = Missing THEN "" ELSE d[k]

\* The turn of the loop of app.py 94 that raises: the first entry without
\* .get, or the insert whose call raises (fail; 0: none does), whichever
\* comes first; Len + 1 when the loop runs to its end.
StopsAt(es, fail) ==
    LET bad == {i \in 1..Len(es) : es[i].kind # "object" \/ i = fail}
    IN IF bad = {} THEN Len(es) + 1 ELSE CHOOSE i \in bad : \A j \in bad : i <= j

\* The rows the turns before the stop have inserted.
Imported(es, n) ==
    [i \in 1..n |-> NewPrompt(nextId + i - 1, Get(es[i], "prompt"), Get(es[i], "query"),
                              Get(es[i], "response"))]

\* app.py 89-106 with Import All pressed: json.load, len, the loop of
\* inserts, and after the loop the success path.  Whatever raises is caught
\* at 105 and surfaced.
import_all(s, doc, fail) ==
    /\ pc[s] = "body"
    /\ EndRun(s)
    /\ IF doc.kind # "list"
       THEN /\ fail = 0
            /\ called' = FALSE
            /\ UNCHANGED <<store, cache>>
       ELSE LET es == doc.entries
                stop == StopsAt(es, fail)
            IN /\ fail # 0 => (fail <= Len(es) /\ stop = fail /\ es[fail].kind = "object")
               /\ stop - 1 <= MaxId + 1 - nextId
               /\ called' = (stop > 1 \/ fail # 0)
               /\ prompts' = prompts \o Imported(es, stop - 1)
               /\ nextId' = nextId + stop - 1
               /\ cache' = IF stop = Len(es) + 1 THEN cache_clear ELSE cache
               /\ UNCHANGED <<ratings, notes>>
    /\ UNCHANGED <<session, deleted, view>>

-----------------------------------------------------------------------------

\* What each browser's user types: s1 is the administrator's, s2 a regular
\* user's, who also tries an address that is not on the allow-list.
LoginEmails(s) == IF s = "s1" THEN {"", "admin@x"} ELSE {"", "user@x", "guest@x"}
Passwords == {"", "pw", "bad"}
Votes == {"up", "down"}
FetchFails == {"none", "prompts", "ratings", "notes"}

\* What is typed into the three fields of the Add and Edit forms: all
\* filled, or one left empty.
Submissions == {<<"t", "t", "t">>, <<"", "t", "t">>, <<"t", "", "t">>, <<"t", "t", "">>}

\* A submission and what its store call does; without all three fields no
\* call is made, so none raises.
Submitted ==
    {x \in Submissions \X Net : FieldsRequired(x[1][1], x[1][2], x[1][3]) \/ x[2] = "ok"}

\* The same for a note.
NoteSubmitted == {x \in Texts \X Net : Truthy(x[1]) \/ x[2] = "ok"}

\* The verifier call and the allowed_users select: both return, or one raises
\* (after the verifier raises the select is not made).
LoginCalls == {<<"ok", "ok">>, <<"raise", "ok">>, <<"ok", "raise">>}

Next ==
    \/ \E s \in Sessions : LoginRender(s)
    \/ \E s \in Sessions : \E email \in LoginEmails(s), password \in Passwords,
          n \in LoginCalls : login_form(s, email, password, n[1], n[2])
    \/ \E s \in Sessions : AppRedirect(s)
    \/ \E s \in Sessions : Refresh(s)
    \/ \E s \in Sessions, fail \in FetchFails : Load(s, fail)
    \/ \E s \in Sessions : Render(s)
    \/ \E s \in Sessions, x \in Submitted :
          add_prompt(s, x[1][1], x[1][2], x[1][3], x[2])
    \/ \E s \in Sessions, pid \in 1..MaxId, x \in Submitted :
          edit_form(s, pid, x[1][1], x[1][2], x[1][3], x[2])
    \/ \E s \in Sessions, pid \in 1..MaxId, v \in Votes, net \in Net : rate(s, pid, v, net)
    \/ \E s \in Sessions, pid \in 1..MaxId, x \in NoteSubmitted :
          add_note(s, pid, x[1], x[2])
    \/ \E s \in Sessions, pid \in 1..MaxId, fail \in DeleteCalls \cup {"none"} :
          delete_item(s, pid, fail)
    \/ \E s \in Sessions, doc \in Docs, fail \in 0..MaxDoc : import_all(s, doc, fail)
    \/ Tick

Spec == Init /\ [][Next]_vars

-----------------------------------------------------------------------------
(* The View Assembler (app.py 72-75, 239-262), a pure function of the       *)
(* fetched prompts and ratings, the viewer and the three controls.  Texts   *)
(* are sequences of characters here, so that lower() and the substring test *)
(* are computed.                                                            *)

MaxRows == 2        \* prompts in the fetched list

\* str.lower() on the alphabet used
Lower(c) == CASE c = "A" -> "a" [] c = "B" -> "b" [] OTHER -> c

lower(t) == [i \in 1..Len(t) |-> Lower(t[i])]

\* sub in text
Contains(sub, text) ==
    \E i \in 0..(Len(text) - Len(sub)) : SubSeq(text, i + 1, i + Len(sub)) = sub

\* app.py 255: f"{p['prompt']} {p['query']} {p['response']}".lower()
Haystack(p) == lower(p.prompt \o <<" ">> \o p.query \o <<" ">> \o p.response)

\* app.py 72-75: the dict comprehension; of two rows with one key the later
\* one stays.
rating_map(rs) ==
    [k \in {<<rs[i].prompt_id, rs[i].user_email>> : i \in 1..Len(rs)} |->
        LET last == CHOOSE i \in 1..Len(rs) :
                        /\ <<rs[i].prompt_id, rs[i].user_email>> = k
                        /\ \A j \in 1..Len(rs) :
                              <<rs[j].prompt_id, rs[j].user_email>> = k => j <= i
        IN rs[last].rating]

\* app.py 239-240: rating_map.get((prompt_id, st.session_state.user_email))
MutGetAnyViewer(m, viewer, prompt_id) ==
    IF \E k \in DOMAIN m : k[1] = prompt_id
    THEN m[CHOOSE k \in DOMAIN m : k[1] = prompt_id]
    ELSE None
get_user_rating(m, viewer, prompt_id) ==
    IF <<prompt_id, viewer>> \in DOMAIN m THEN m[<<prompt_id, viewer>>] ELSE None

\* app.py 245-257: the body of the loop; FALSE is a continue.
Kept(p, m, viewer, search, rating_filter) ==
    LET rating == get_user_rating(m, viewer, p.id) IN
    IF rating_filter = "Liked" /\ rating # "up" THEN FALSE
    ELSE IF rating_filter = "Disliked" /\ rating # "down" THEN FALSE
    ELSE IF rating_filter = "Unrated" /\ rating # None THEN FALSE
    ELSE IF search # <<>> /\ ~Contains(lower(search), Haystack(p)) THEN FALSE
    ELSE TRUE

\* app.py 242-259: for p in prompts: ... filtered.append(p)
RECURSIVE filter_loop(_, _, _, _, _)
filter_loop(ps, m, viewer, search, rating_filter) ==
    IF ps = <<>> THEN <<>>
    ELSE LET rest == filter_loop(Tail(ps), m, viewer, search, rating_filter)
         IN IF Kept(Head(ps), m, viewer, search, rating_filter)
            THEN <<Head(ps)>> \o rest
            ELSE rest

\* app.py 242-262: the list the page shows.
filtered(ps, rs, viewer, search, sort, rating_filter) ==
    LET f == filter_loop(ps, rating_map(rs), viewer, search, rating_filter)
    IN IF sort = "Oldest First" THEN Reverse(f) ELSE f

Viewers == {"me@x", "you@x"}
Sorts == {"Newest First", "Oldest First"}
\* "Liked" and "Disliked" stand for the emoji-prefixed labels of app.py 235.
RatingFilters == {"All", "Liked", "Disliked", "Unrated"}
Searches == {<<>>, <<"a">>, <<"B">>, <<"a", " ", "b">>, <<"A", "B">>}

RowTexts ==
    { [prompt |-> <<"A">>, query |-> <<"b">>, response |-> <<>>],
      [prompt |-> <<"b">>, query |-> <<>>, response |-> <<"a">>],
      [prompt |-> <<"a", "b">>, query |-> <<"B">>, response |-> <<"A">>] }

\* A fetched list of n prompts, newest (highest id) first.
PromptLists(n) ==
    { [i \in 1..n |-> [id |-> n + 1 - i, prompt |-> t[i].prompt, query |-> t[i].query,
                       response |-> t[i].response]] : t \in [1..n -> RowTexts] }

\* The ratings tables over n prompts: per (prompt, viewer) no row, up or down.
RECURSIVE RowsOf(_, _)
RowsOf(f, keys) ==
    IF keys = {} THEN <<>>
    ELSE LET k == CHOOSE x \in keys : TRUE
             rest == RowsOf(f, keys \ {k})
         IN IF f[k] = None THEN rest ELSE <<NewRating(k[1], k[2], f[k])>> \o rest

RatingLists(n) ==
    { RowsOf(f, (1..n) \X Viewers) : f \in [(1..n) \X Viewers -> {None, "up", "down"}] }

InitView ==
    /\ session = [s \in Sessions |-> NoSession]
    /\ pc = [s \in Sessions |-> "idle"]
    /\ fetched = [s \in Sessions |-> NoFetch]
    /\ prompts = <<>>
    /\ ratings = {}
    /\ notes = <<>>
    /\ nextId = 1
    /\ cache = cache_clear
    /\ deleted = {}
    /\ called = FALSE
    /\ \E n \in 0..MaxRows :
         \E ps \in PromptLists(n), rs \in RatingLists(n), viewer \in Viewers,
            search \in Searches, sort \in Sorts, rating_filter \in RatingFilters :
            view = [done |-> FALSE, prompts |-> ps, ratings |-> rs, viewer |-> viewer,
                    search |-> search, sort |-> sort, rating_filter |-> rating_filter,
                    filtered |-> <<>>]

Assemble ==
    /\ ~view.done
    /\ view' = [view EXCEPT !.done = TRUE,
                   !.filtered = filtered(view.prompts, view.ratings, view.viewer,
                                         view.search, view.sort, view.rating_filter)]
    /\ UNCHANGED <<session, pc, fetched, store, cache, deleted, called>>

NextView == Assemble

SpecView == InitView /\ [][NextView]_vars

-----------------------------------------------------------------------------
(* The claims *)

AnyDelete(s) ==
    \E pid \in 1..MaxId, fail \in DeleteCalls \cup {"none"} : delete_item(s, pid, fail)

NonEmptyRow(row) == row.prompt # "" /\ row.query # "" /\ row.response # ""

\* C1: the main view is rendered, and a handler can run (the run is past the
\* gate, pc = "body"), only in a session whose user_email is an email that a
\* successful sign-in stored; every other session is sent to the login view.
C1_MainViewOnlyAfterSignIn ==
    \A s \in Sessions : pc[s] = "body" => session[s].user_email \in Emails

\* C2: a session's user_email and user_role become an email and a role only
\* in a sign-in step in which the verifier accepted the credential and the
\* email has a row in allowed_users, and then they are that email and that
\* row's role; a sign-in in which the verifier answers an error, the email
\* has no row, or either call raises leaves every session as it was (no step
\* that changes a session is such a sign-in).
C2_SessionSetOnlyByAllowedSignIn ==
    [][session' # session =>
          \A s \in Sessions :
             /\ (session'[s] # session[s]
                   /\ (Truthy(session'[s].user_email) \/ Truthy(session'[s].user_role)))
                => \E email \in Emails, password \in Passwords :
                      /\ login_form(s, email, password, "ok", "ok")
                      /\ Verifier(email, password) = "ok"
                      /\ \E i \in 1..Len(allowed_users) :
                            /\ allowed_users[i].email = email
                            /\ session'[s] = [user_email |-> email,
                                              user_role |-> allowed_users[i].role]
             /\ \A email \in Emails \cup {""}, password \in Passwords,
                   vnet \in Net, snet \in Net :
                   (\/ Verifier(email, password) = "error"
                    \/ \A i \in 1..Len(allowed_users) : allowed_users[i].email # email
                    \/ vnet = "raise"
                    \/ snet = "raise")
                   => ~login_form(s, email, password, vnet, snet)
      ]_vars

\* A sign-in of the regular user has just stored the email and the row's role.
C2_Witness ==
    /\ called
    /\ session["s2"] = [user_email |-> "user@x", user_role |-> "user"]
    /\ session["s1"].user_email = None

\* C3: a step that removes a row from prompts, ratings or notes is a step of
\* the delete handler in a session whose user_role is admin.
C3_OnlyAdminDeletes ==
    [][(\/ \E i \in 1..Len(prompts) : prompts[i].id \notin Ids(prompts')
        \/ \E x \in ratings : \A y \in ratings' : ~SameKey(x, y)
        \/ Len(notes') < Len(notes))
       => \E s \in Sessions : session[s].user_role = "admin" /\ AnyDelete(s)
      ]_vars

\* The admin's delete has completed while a signed-in non-admin session is on
\* the main page.
C3_Witness ==
    /\ deleted # {}
    /\ \E s \in Sessions : session[s].user_role = "user" /\ pc[s] = "body"

\* C4: ratings holds at most one row per (prompt_id, user_email); a Rate
\* leaves exactly one row for the viewer's key, with the new value, and the
\* other keys' rows as they were; repeating a vote changes nothing; and a
\* row appears or changes its value only by a Rate of that viewer.
C4_OneRatingPerViewerLastWins ==
    /\ [](\A x \in ratings, y \in ratings : SameKey(x, y) => x = y)
    /\ [][/\ \A s \in Sessions, pid \in 1..MaxId, v \in Votes :
                rate(s, pid, v, "ok") =>
                   LET row == NewRating(pid, session[s].user_email, v) IN
                   /\ {x \in ratings' : SameKey(x, row)} = {row}
                   /\ {x \in ratings' : ~SameKey(x, row)} = {x \in ratings : ~SameKey(x, row)}
                   /\ row \in ratings => ratings' = ratings
          /\ \A y \in ratings' \ ratings :
                \E s \in Sessions :
                   /\ session[s].user_email = y.user_email
                   /\ rate(s, y.prompt_id, y.rating, "ok")
         ]_vars

\* The regular user's row says down, written by the Rate that just ran.
C4_Witness ==
    /\ called
    /\ cache = cache_clear
    /\ NewRating(1, "user@x", "down") \in ratings
    /\ NewRating(1, "admin@x", "up") \in ratings

\* The store holds no rating, no note and no prompt of a deleted prompt.
NoRowsOfDeleted ==
    \A p \in deleted :
       /\ \A x \in ratings : x.prompt_id # p
       /\ \A i \in 1..Len(notes) : notes[i].prompt_id # p
       /\ p \notin Ids(prompts)

\* A run of the main page in session s, signed in, ends in this step.
SignedInRunEnds(s) ==
    /\ session[s].user_email \in Emails
    /\ pc[s] = "body"
    /\ pc'[s] = "idle"

\* C5: once the delete of a prompt has completed, the store holds no rating,
\* no note and no prompt with that id: the delete leaves none, and no later
\* step of a signed-in session's run puts one there.
C5_DeletedPromptHasNoRows ==
    [][\A s \in Sessions :
          (SignedInRunEnds(s) /\ NoRowsOfDeleted) => NoRowsOfDeleted'
      ]_vars

\* C6: a handler step of a signed-in session in which a store call raises
\* leaves the store as it was and the cache as it was.
C6_FailureLeavesStoreAndCache ==
    [][\A s \in Sessions :
          (/\ SignedInRunEnds(s)
           /\ \/ \E p \in Texts, q \in Texts, r \in Texts :
                    add_prompt(s, p, q, r, "raise")
              \/ \E pid \in 1..MaxId, p \in Texts, q \in Texts, r \in Texts :
                    edit_form(s, pid, p, q, r, "raise")
              \/ \E pid \in 1..MaxId, v \in Votes : rate(s, pid, v, "raise")
              \/ \E pid \in 1..MaxId, text \in Texts : add_note(s, pid, text, "raise")
              \/ \E pid \in 1..MaxId, fail \in DeleteCalls : delete_item(s, pid, fail)
              \/ \E doc \in Docs, fail \in 1..MaxDoc : import_all(s, doc, fail))
          => UNCHANGED <<store, cache>>
      ]_vars

\* The documents that are lists of objects.
WellFormed ==
    {doc \in Docs : /\ doc.kind = "list"
                    /\ \A i \in 1..Len(doc.entries) : doc.entries[i].kind = "object"}

\* A handler step whose every store call returned and that wrote (an import:
\* every entry was inserted).
SuccessfulWrite(s) ==
    \/ \E f \in Submissions :
          /\ FieldsRequired(f[1], f[2], f[3])
          /\ \/ add_prompt(s, f[1], f[2], f[3], "ok")
             \/ \E pid \in 1..MaxId : edit_form(s, pid, f[1], f[2], f[3], "ok")
    \/ \E pid \in 1..MaxId, v \in Votes : rate(s, pid, v, "ok")
    \/ \E pid \in 1..MaxId, text \in Texts : text # "" /\ add_note(s, pid, text, "ok")
    \/ \E pid \in 1..MaxId : delete_item(s, pid, "none")
    \/ \E doc \in WellFormed :
          /\ Len(prompts') = Len(prompts) + Len(doc.entries)
          /\ import_all(s, doc, 0)

\* C7: a fetch is answered by the cache, with no store call, exactly when the
\* entry is there (stored and not cleared since) and younger than 60;
\* otherwise the store is read and its answer stored with age 0.  Every
\* successful mutation handler leaves all three entries absent, so the next
\* fetch of each reads the store as the write left it (a step either leaves
\* no entry or is no successful write).
C7_CacheServesFreshAndWritesInvalidate ==
    [][\A s \in Sessions :
          /\ pc[s] = "idle" =>
                \A fail \in FetchFails :
                   Load(s, fail) =>
                      /\ \A n \in Returned(fail) :
                            IF cache[n].present /\ cache[n].age < 60
                            THEN cache'[n] = cache[n]
                            ELSE cache'[n] = [present |-> TRUE, age |-> 0,
                                              data |-> Select(n)]
                      /\ called' = (\E n \in Returned(fail) \cup ({fail} \ {"none"}) :
                                       ~(cache[n].present /\ cache[n].age < 60))
                      /\ fail = "none" =>
                            fetched'[s] = IdList(IF cache["prompts"].present
                                                       /\ cache["prompts"].age < 60
                                                    THEN cache["prompts"].data
                                                    ELSE Reverse(prompts))
          /\ pc[s] = "body" =>
                \/ \A n \in CacheNames : ~cache'[n].present
                \/ ~SuccessfulWrite(s)
      ]_vars

\* A run has just been answered by the cache alone, from entries that have
\* aged but not expired, while another session waits on its page.
C7_Witness ==
    /\ session["s1"].user_email = "admin@x"
    /\ session["s2"].user_email = "user@x"
    /\ ~called
    /\ \A n \in CacheNames : cache[n].present /\ cache[n].age > 0 /\ cache[n].age < 60
    /\ pc["s1"] = "body"
    /\ fetched["s1"] = <<1>>

\* The prompt rows that the step created or changed are non-empty.
WrittenRowsNonEmpty ==
    \A i \in 1..Len(prompts') :
       (\A j \in 1..Len(prompts) : prompts[j] # prompts'[i]) => NonEmptyRow(prompts'[i])

\* C8 (as stated): every prompt row that a handler of a signed-in session
\* creates or changes (Add Prompt, Edit Prompt, Bulk Import) has non-empty
\* prompt, query and response.
C8_EveryWrittenRowNonEmpty ==
    [][\A s \in Sessions : SignedInRunEnds(s) => WrittenRowsNonEmpty]_vars

\* An Add Prompt or Edit Prompt submission f in session s.
AddOrEdit(s, f) ==
    \E net \in Net :
       \/ add_prompt(s, f[1], f[2], f[3], net)
       \/ \E pid \in 1..MaxId : edit_form(s, pid, f[1], f[2], f[3], net)

\* C8 (amended): every row that Add Prompt creates and every row that Edit
\* Prompt changes has non-empty prompt, query and response, and an Add or
\* Edit submission with an empty field makes no store call and leaves the
\* store as it was.  (A step of a run writes non-empty rows only, or is no
\* Add or Edit; it makes no call and leaves the store, or is no Add or Edit
\* with an empty field.)
C8_AddAndEditRequireAllFields ==
    [][\A s \in Sessions :
          pc[s] = "body" =>
             /\ \/ WrittenRowsNonEmpty
                \/ \A f \in Submissions : ~AddOrEdit(s, f)
             /\ \/ ~called' /\ UNCHANGED store
                \/ \A f \in Submissions :
                      (f[1] = "" \/ f[2] = "" \/ f[3] = "") => ~AddOrEdit(s, f)
      ]_vars

\* A signed-in user's row with all three fields has just been written, and
\* the cache cleared.
C8_Witness ==
    /\ session["s2"].user_email = "user@x"
    /\ session["s1"].user_email = Absent
    /\ called
    /\ cache = cache_clear
    /\ nextId = 2
    /\ prompts = <<NewPrompt(1, "t", "t", "t")>>

\* C9: an import, in a signed-in session, of a malformed document
\* (unparseable, not a list, or a list with an entry that is not an object)
\* inserts no prompt and leaves the cache as it was.
C9_MalformedImportInsertsNothing ==
    [][\A s \in Sessions, doc \in Docs, fail \in 0..MaxDoc :
          (/\ SignedInRunEnds(s)
           /\ import_all(s, doc, fail)
           /\ \/ doc.kind # "list"
              \/ \E i \in 1..Len(doc.entries) : doc.entries[i].kind # "object")
          => UNCHANGED <<prompts, cache>>
      ]_vars

\* The viewer's own rows for a prompt, as the set of their values.
ViewerVotes(p) ==
    {view.ratings[i].rating :
        i \in {j \in 1..Len(view.ratings) :
                  /\ view.ratings[j].prompt_id = p.id
                  /\ view.ratings[j].user_email = view.viewer}}

PassesFilter(p) ==
    CASE view.rating_filter = "Liked" -> "up" \in ViewerVotes(p)
      [] view.rating_filter = "Disliked" -> "down" \in ViewerVotes(p)
      [] view.rating_filter = "Unrated" -> ViewerVotes(p) = {}
      [] view.rating_filter = "All" -> TRUE

MatchesSearch(p) == Contains(lower(view.search), Haystack(p))

InFetchedOrder ==
    SelectSeq(view.prompts, LAMBDA p : PassesFilter(p) /\ MatchesSearch(p))

\* C10: the displayed list is the fetched list restricted to the prompts
\* that pass the rating filter on the viewer's own rating and whose text
\* (prompt, query and response joined by single spaces) contains the search
\* text case-insensitively, in fetched order for Newest First and in the
\* exact reverse of that order for Oldest First.
C10_DisplayedIsFilteredFetchedOrder ==
    view.done =>
       LET e == InFetchedOrder IN
       view.filtered = IF view.sort = "Oldest First"
                       THEN [i \in 1..Len(e) |-> e[Len(e) + 1 - i]]
                       ELSE e

\* Two prompts shown oldest first under a search, one of them rated by the
\* other viewer only.
C10_Witness ==
    /\ view.done
    /\ view.sort = "Oldest First"
    /\ view.rating_filter = "Unrated"
    /\ view.search = <<"B">>
    /\ Len(view.filtered) = 2
    /\ view.filtered[1].id = 1
    /\ \E i \in 1..Len(view.ratings) : view.ratings[i].user_email # view.viewer

====
